---------------------------- MODULE Spec2Model ----------------------------
(***************************************************************************)
(* A model of fimbu's credential utilities (src/fimbu/utils/crypto.py) and *)
(* of its X-Forwarded-Host middleware                                      *)
(* (src/fimbu/middleware/x_forward_host.py).                               *)
(*                                                                         *)
(* Values.  A Python str is a sequence of code points, a Python bytes a    *)
(* sequence of numbers 0..255.  An operand that may be either is a record  *)
(* [kind |-> "str" | "bytes" | "none", v |-> the sequence].                *)
(*                                                                         *)
(* Specifications.  Each component has its own specification over its own  *)
(* variables; the others stay at their initial value:                      *)
(*   Spec       PasswordManager on an asyncio event loop                   *)
(*   SpecVerify the same, hashing and verifying passwords of every size    *)
(*   SpecKey   PasswordManager.get_encryption_key                          *)
(*   SpecHmac  salted_hmac                                                 *)
(*   SpecCmp   constant_time_compare                                       *)
(*   SpecRand  get_random_string, get_random_secret_key                    *)
(*   SpecMw    XForwardedHostMiddleware                                    *)
(***************************************************************************)
EXTENDS Integers, Sequences, FiniteSets, TLC

VARIABLES
    keyCall,      \* the last get_encryption_key call: its secret and result
    hmacCall,     \* the last salted_hmac call: its arguments and outcome
    hmacPrev,     \* the salted_hmac call before it
    cmpCall,      \* the last constant_time_compare call
    randCall,     \* the last get_random_string / get_random_secret_key call
    context,      \* the PasswordManager, made by __init__
    tasks,        \* the coroutines on the event loop, one call each at a time
    loopHolder,   \* the task whose synchronous code occupies the loop thread
    mw,           \* the middleware object: trusted_hosts, always_trust
    mwCall        \* the last request: the scope received, the app calls made

vars == <<keyCall, hmacCall, hmacPrev, cmpCall, randCall,
          context, tasks, loopHolder, mw, mwCall>>

-----------------------------------------------------------------------------
(* Text and bytes                                                          *)

\* The absent value (Python's None) where a str or bytes may stand.
None == [kind |-> "none", v |-> <<>>]

Str(s) == [kind |-> "str", v |-> s]

Bytes(b) == [kind |-> "bytes", v |-> b]

\* n copies of x.
Repeat(x, n) == [i \in 1..n |-> x]

\* s[:n] for n >= 0.
Take(s, n) == IF Len(s) <= n THEN s ELSE SubSeq(s, 1, n)

RECURSIVE Flatten(_)
\* The concatenation of a sequence of sequences, by halves so that a long
\* sequence nests no deeper than its length has digits.
Flatten(ss) ==
    IF ss = <<>> THEN <<>>
    ELSE IF Len(ss) = 1 THEN ss[1]
    ELSE LET half == Len(ss) \div 2
         IN  Flatten(SubSeq(ss, 1, half)) \o Flatten(SubSeq(ss, half + 1, Len(ss)))

\* UTF-8 of one code point below 2^16.
Utf8Char(c) ==
    IF c < 128 THEN <<c>>
    ELSE IF c < 2048 THEN <<192 + (c \div 64), 128 + (c % 64)>>
    ELSE <<224 + (c \div 4096), 128 + ((c \div 64) % 64), 128 + (c % 64)>>

\* str.encode(): UTF-8 of a sequence of code points; a text of code points
\* below 128 is its own encoding.
Utf8Encode(s) ==
    IF \A i \in 1..Len(s) : s[i] < 128 THEN s
    ELSE Flatten([i \in 1..Len(s) |-> Utf8Char(s[i])])

\* The fill character of f"{secret:<32}": a space.
ChSpace == 32

-----------------------------------------------------------------------------
(* base64.urlsafe_b64encode                                                *)

B64UrlAlphabet ==
    <<"A","B","C","D","E","F","G","H","I","J","K","L","M","N","O","P",
      "Q","R","S","T","U","V","W","X","Y","Z","a","b","c","d","e","f",
      "g","h","i","j","k","l","m","n","o","p","q","r","s","t","u","v",
      "w","x","y","z","0","1","2","3","4","5","6","7","8","9","-","_">>

B64Char(n) == B64UrlAlphabet[n + 1]

RECURSIVE urlsafe_b64encode(_)
\* Three bytes become four characters; a last group of one or two bytes is
\* padded with "=".
urlsafe_b64encode(b) ==
    IF Len(b) = 0 THEN <<>>
    ELSE IF Len(b) = 1 THEN
        <<B64Char(b[1] \div 4), B64Char((b[1] % 4) * 16), "=", "=">>
    ELSE IF Len(b) = 2 THEN
        <<B64Char(b[1] \div 4),
          B64Char((b[1] % 4) * 16 + (b[2] \div 16)),
          B64Char((b[2] % 16) * 4), "=">>
    ELSE
        <<B64Char(b[1] \div 4),
          B64Char((b[1] % 4) * 16 + (b[2] \div 16)),
          B64Char((b[2] % 16) * 4 + (b[3] \div 64)),
          B64Char(b[3] % 64)>>
        \o urlsafe_b64encode(SubSeq(b, 4, Len(b)))

\* The number a base64 character stands for.
B64Index(c) == CHOOSE n \in 0..63 : B64UrlAlphabet[n + 1] = c

RECURSIVE urlsafe_b64decode(_)
\* The bytes a padded URL-safe base64 text stands for.
urlsafe_b64decode(t) ==
    IF Len(t) < 4 THEN <<>>
    ELSE
        LET n1 == B64Index(t[1])
            n2 == B64Index(t[2])
            rest == urlsafe_b64decode(SubSeq(t, 5, Len(t)))
        IN  IF t[3] = "=" THEN <<n1 * 4 + (n2 \div 16)>>
            ELSE IF t[4] = "=" THEN
                <<n1 * 4 + (n2 \div 16),
                  (n2 % 16) * 16 + (B64Index(t[3]) \div 4)>>
            ELSE
                <<n1 * 4 + (n2 \div 16),
                  (n2 % 16) * 16 + (B64Index(t[3]) \div 4),
                  (B64Index(t[3]) % 4) * 64 + B64Index(t[4])>> \o rest

-----------------------------------------------------------------------------
(* PasswordManager.get_encryption_key                                      *)

\* The key width the code pads to.
KeyLen == 32

\* How far beyond KeyLen the secrets of the model reach.
MaxOver == 2

\* f"{secret:<32}": left-aligned in a field of KeyLen, filled with spaces.
PadRight(s, n) == IF Len(s) >= n THEN s ELSE s \o Repeat(ChSpace, n - Len(s))

get_encryption_key(secret) ==
    LET s == IF Len(secret) <= KeyLen
             THEN Take(PadRight(secret, KeyLen), KeyLen)
             ELSE secret
    IN  urlsafe_b64encode(Utf8Encode(s))

\* The secrets tried: runs of one character ("a", " " or the two-byte
\* "e-acute", 233) of every length up to KeyLen + MaxOver, alone or after an
\* "e-acute".
SecretInputs ==
    {Repeat(c, n) : c \in {97, 32, 233}, n \in 0..(KeyLen + MaxOver)}
    \cup {<<233>> \o Repeat(97, n) : n \in 0..(KeyLen + MaxOver - 1)}

NoKeyCall == [called |-> FALSE, secret |-> <<>>, result |-> <<>>]

\* One call is made, on a secret of SecretInputs.
CallGetEncryptionKey ==
    /\ ~keyCall.called
    /\ \E secret \in SecretInputs :
           keyCall' = [called |-> TRUE, secret |-> secret,
                       result |-> get_encryption_key(secret)]
    /\ UNCHANGED <<hmacCall, hmacPrev, cmpCall, randCall,
                   context, tasks, loopHolder, mw, mwCall>>

-----------------------------------------------------------------------------
(* force_bytes, hashlib, hmac                                              *)

\* fimbu.utils.encoding.force_bytes: bytes stay as they are, text is encoded.
force_bytes(x) == IF x.kind = "bytes" THEN x.v ELSE Utf8Encode(x.v)

\* settings.SECRET_KEY, the process-wide secret: the text "k".
SECRET_KEY == Str(<<107>>)

\* What getattr(hashlib, name) finds: a constructor of a fixed-length hash
\* ("hash"), of an extendable-output hash whose digest() needs a length
\* ("xof"), a function that is no constructor ("function"), a module
\* attribute that is not callable ("object"), or nothing ("absent").
HashlibAttr(name) ==
    CASE name \in {"sha1", "sha256", "md5"} -> "hash"
      [] name \in {"shake_128"} -> "xof"
      [] name \in {"new", "pbkdf2_hmac"} -> "function"
      [] name \in {"algorithms_available"} -> "object"
      [] OTHER -> "absent"

\* hashlib.algorithms_available: the names of the hash functions hashlib
\* supports ("ripemd160" only through hashlib.new).
SupportedHashNames == {"sha1", "sha256", "md5", "shake_128", "ripemd160"}

\* The algorithm names tried.
AlgorithmNames ==
    {"sha1", "sha256", "md5", "shake_128", "new", "pbkdf2_hmac",
     "algorithms_available", "ripemd160", "nope"}

\* hasher(data).digest() of a fixed-length hash: the hash is taken as
\* collision-free, so the digest stands for its algorithm and input.
HashDigest(algorithm, data) == [hash |-> algorithm, of |-> data]

\* hmac.new(key, msg, digestmod): the HMAC of msg under key.
HmacNew(key, msg, algorithm) == [hmac |-> algorithm, key |-> key, msg |-> msg]

NoDigest == [hash |-> "", of |-> <<>>]

NoHmac == [hmac |-> "", key |-> NoDigest, msg |-> <<>>]

Raised(error) == [status |-> "raise", error |-> error,
                  key |-> NoDigest, digest |-> NoHmac]

\* salted_hmac with the salt left out of the key: key = hasher(secret).
salted_hmac_unsalted(key_salt, value, secret, algorithm) ==
    LET secret1 == IF secret = None THEN SECRET_KEY ELSE secret
        secret_b == force_bytes(secret1)
        attr == HashlibAttr(algorithm)
    IN  IF attr = "absent" THEN Raised("InvalidAlgorithm")
        ELSE IF attr # "hash" THEN Raised("TypeError")
        ELSE LET key == HashDigest(algorithm, secret_b)
             IN  [status |-> "ok", error |-> "", key |-> key,
                  digest |-> HmacNew(key, force_bytes(value), algorithm)]

salted_hmac(key_salt, value, secret, algorithm) ==
    LET secret1 == IF secret = None THEN SECRET_KEY ELSE secret
        key_salt_b == force_bytes(key_salt)
        secret_b == force_bytes(secret1)
        attr == HashlibAttr(algorithm)
    IN  IF attr = "absent" THEN Raised("InvalidAlgorithm")
        ELSE IF attr # "hash" THEN Raised("TypeError")
        ELSE LET key == HashDigest(algorithm, key_salt_b \o secret_b)
             IN  [status |-> "ok", error |-> "", key |-> key,
                  digest |-> HmacNew(key, force_bytes(value), algorithm)]

\* The operands tried: "a" as text and as bytes, "b", "ab", "e-acute".
KeySalts == {Str(<<97>>), Bytes(<<97>>), Str(<<97, 98>>), Str(<<233>>)}

HmacSecrets == {None, Str(<<98>>), Str(<<98, 98>>), Bytes(<<107>>)}

HmacValues == {Str(<<118>>), Bytes(<<119>>)}

NoHmacCall == [called |-> FALSE, key_salt |-> None, value |-> None,
               secret |-> None, algorithm |-> "", result |-> Raised("")]

\* Two calls are made, one after the other.
CallSaltedHmac ==
    /\ ~hmacPrev.called
    /\ \E key_salt \in KeySalts, value \in HmacValues,
          secret \in HmacSecrets, algorithm \in AlgorithmNames :
           hmacCall' = [called |-> TRUE, key_salt |-> key_salt,
                        value |-> value, secret |-> secret,
                        algorithm |-> algorithm,
                        result |-> salted_hmac(key_salt, value, secret, algorithm)]
    /\ hmacPrev' = hmacCall
    /\ UNCHANGED <<keyCall, cmpCall, randCall,
                   context, tasks, loopHolder, mw, mwCall>>

-----------------------------------------------------------------------------
(* constant_time_compare                                                   *)

\* secrets.compare_digest on two bytes values: the lengths are compared, then
\* every position of the second operand is compared (against the first when
\* the lengths agree, against itself when they do not) without stopping at a
\* difference.
CompareDigest(a, b) ==
    LET left == IF Len(a) = Len(b) THEN a ELSE b
        differs == {i \in 1..Len(b) : left[i] # b[i]}
    IN  Len(a) = Len(b) /\ differs = {}

\* constant_time_compare over the common length only, as a comparison of
\* zipped bytes would be.
constant_time_compare_zipped(val1, val2) ==
    LET a == force_bytes(val1)
        b == force_bytes(val2)
        n == IF Len(a) < Len(b) THEN Len(a) ELSE Len(b)
    IN  CompareDigest(Take(a, n), Take(b, n))

constant_time_compare(val1, val2) ==
    CompareDigest(force_bytes(val1), force_bytes(val2))

\* The longest operand compared.
MaxOperandLen == 2

\* Every sequence over S of length at most n.
SeqsUpTo(S, n) == UNION {[1..k -> S] : k \in 0..n}

\* The operands tried: texts over "a", "b", "e-acute", and bytes over "a" and
\* the two bytes of the UTF-8 of "e-acute".
CompareOperands ==
    {Str(s) : s \in SeqsUpTo({97, 98, 233}, MaxOperandLen)}
    \cup {Bytes(b) : b \in SeqsUpTo({97, 195, 169}, MaxOperandLen)}

NoCmpCall == [called |-> FALSE, val1 |-> None, val2 |-> None, result |-> FALSE]

\* One call is made, on two operands of CompareOperands.
CallConstantTimeCompare ==
    /\ ~cmpCall.called
    /\ \E val1 \in CompareOperands, val2 \in CompareOperands :
           cmpCall' = [called |-> TRUE, val1 |-> val1, val2 |-> val2,
                       result |-> constant_time_compare(val1, val2)]
    /\ UNCHANGED <<keyCall, hmacCall, hmacPrev, randCall,
                   context, tasks, loopHolder, mw, mwCall>>

-----------------------------------------------------------------------------
(* get_random_string, get_random_secret_key                                *)

\* An alphabet is a sequence of one-character strings.
RANDOM_STRING_CHARS ==
    <<
      "a","b","c","d","e","f","g","h","i","j","k","l","m",
      "n","o","p","q","r","s","t","u","v","w","x","y","z",
      "A","B","C","D","E","F","G","H","I","J","K","L","M",
      "N","O","P","Q","R","S","T","U","V","W","X","Y","Z",
      "0","1","2","3","4","5","6","7","8","9" >>

\* The chars of get_random_secret_key.
SecretKeyChars ==
    <<
      "a","b","c","d","e","f","g","h","i","j","k","l","m",
      "n","o","p","q","r","s","t","u","v","w","x","y","z",
      "0","1","2","3","4","5","6","7","8","9","!","@","#",
      "$","%","^","&","*","(","-","_","=","+",")" >>

\* get_random_string with range(1, length) for range(length).
get_random_string_short(length, allowed_chars) ==
    IF length > 1 /\ Len(allowed_chars) = 0
    THEN {[status |-> "raise", error |-> "IndexError", value |-> <<>>]}
    ELSE {[status |-> "ok", error |-> "",
           value |-> [i \in 1..(length - 1) |-> allowed_chars[choice[i]]]] :
             choice \in [1..(length - 1) -> 1..Len(allowed_chars)]}

\* The outcomes of "".join(secrets.choice(allowed_chars) for i in
\* range(length)): one string for every way to choose, or IndexError when a
\* choice is asked of an empty alphabet.
get_random_string(length, allowed_chars) ==
    IF length > 0 /\ Len(allowed_chars) = 0
    THEN {[status |-> "raise", error |-> "IndexError", value |-> <<>>]}
    ELSE {[status |-> "ok", error |-> "",
           value |-> [i \in 1..length |-> allowed_chars[choice[i]]]] :
             choice \in [1..length -> 1..Len(allowed_chars)]}

get_random_secret_key(length) == get_random_string(length, SecretKeyChars)

\* The longest string asked for over a small alphabet.
MaxLen == 3

\* The longest string asked for over the two alphabets of the code.
MaxKeyChars == 2

\* The alphabets passed: one and several characters, a repeated character,
\* and none.
Alphabets == {<<"a">>, <<"a", "b">>, <<"x", "y", "z">>, <<"a", "a", "b">>, <<>>}

NoRandCall == [called |-> FALSE, fn |-> "", length |-> 0,
               allowed_chars |-> <<>>,
               result |-> [status |-> "", error |-> "", value |-> <<>>]]

\* One call is made, of either function.
CallGetRandomString ==
    /\ ~randCall.called
    /\ \E length \in 0..MaxLen, allowed_chars \in Alphabets :
         \E r \in get_random_string(length, allowed_chars) :
           randCall' = [called |-> TRUE, fn |-> "get_random_string",
                        length |-> length, allowed_chars |-> allowed_chars,
                        result |-> r]
    /\ UNCHANGED <<keyCall, hmacCall, hmacPrev, cmpCall,
                   context, tasks, loopHolder, mw, mwCall>>

\* get_random_string(length): allowed_chars defaults to RANDOM_STRING_CHARS.
CallGetRandomStringDefault ==
    /\ ~randCall.called
    /\ \E length \in 0..MaxKeyChars :
         \E r \in get_random_string(length, RANDOM_STRING_CHARS) :
           randCall' = [called |-> TRUE, fn |-> "get_random_string",
                        length |-> length, allowed_chars |-> RANDOM_STRING_CHARS,
                        result |-> r]
    /\ UNCHANGED <<keyCall, hmacCall, hmacPrev, cmpCall,
                   context, tasks, loopHolder, mw, mwCall>>

CallGetRandomSecretKey ==
    /\ ~randCall.called
    /\ \E length \in 0..MaxKeyChars :
         \E r \in get_random_secret_key(length) :
           randCall' = [called |-> TRUE, fn |-> "get_random_secret_key",
                        length |-> length, allowed_chars |-> SecretKeyChars,
                        result |-> r]
    /\ UNCHANGED <<keyCall, hmacCall, hmacPrev, cmpCall,
                   context, tasks, loopHolder, mw, mwCall>>

-----------------------------------------------------------------------------
(* XForwardedHostMiddleware                                                *)

\* A host name or a trusted_hosts text is a sequence of one-character
\* strings.
HostA ==
    <<"1","2","7",".","0",".","0",".","1">>

HostB ==
    <<"1","0",".","0",".","0",".","2">>

Star == <<"*">>

RECURSIVE Split(_, _)
\* str.split(sep) for a one-character sep: the pieces between separators.
Split(s, sep) ==
    IF \A i \in 1..Len(s) : s[i] # sep THEN <<s>>
    ELSE LET k == CHOOSE i \in 1..Len(s) :
                      s[i] = sep /\ \A j \in 1..(i - 1) : s[j] # sep
         IN  <<SubSeq(s, 1, k - 1)>> \o Split(SubSeq(s, k + 1, Len(s)), sep)

RECURSIVE Strip(_)
\* str.strip(): without the white space at either end.
Strip(s) ==
    IF s = <<>> THEN s
    ELSE IF Head(s) = " " THEN Strip(Tail(s))
    ELSE IF s[Len(s)] = " " THEN Strip(SubSeq(s, 1, Len(s) - 1))
    ELSE s

\* The set of the elements of a sequence.
Range(q) == {q[i] : i \in 1..Len(q)}

\* litestar's AbstractMiddleware as far as this middleware meets it.  A
\* subclass's __call__ is wrapped at class creation: the wrapper calls the app
\* directly for a scope the middleware is not for, reading self.scopes,
\* self.exclude_pattern and self.exclude_opt_key.  scopes and exclude_opt_key
\* are attributes of the class; exclude_pattern is set by
\* AbstractMiddleware.__init__ in the releases where only the instance has it,
\* and is there without it in the others.
AbstractMiddlewareClasses ==
    {[attrs |-> {"scopes", "exclude", "exclude_opt_key"},
      scopes |-> {"http", "websocket"}],
     [attrs |-> {"scopes", "exclude", "exclude_opt_key", "exclude_pattern"},
      scopes |-> {"http", "websocket"}]}

\* XForwardedHostMiddleware.__init__: trusted_hosts is a comma-separated
\* text (kind "str") or a list of host names (kind "list").  It sets app,
\* trusted_hosts and always_trust and does not call the base __init__, so the
\* object has these attributes and the ones of the class, base.
XForwardedHostMiddleware(base, trusted_hosts) ==
    LET hosts == IF trusted_hosts.kind = "str"
                 THEN {Strip(item) : item \in Range(Split(trusted_hosts.v, ","))}
                 ELSE Range(trusted_hosts.v)
    IN  [attrs |-> base.attrs \cup {"app", "trusted_hosts", "always_trust"},
         scopes |-> base.scopes,
         trusted_hosts |-> hosts,
         always_trust |-> Star \in hosts]

\* The trusted_hosts arguments tried: the default "127.0.0.1", a text of two
\* hosts with white space, "*", and lists.
TrustedHostsInputs ==
    {[kind |-> "str", v |-> HostA],
     [kind |-> "str", v |-> HostA \o <<",", " ">> \o HostB \o <<" ">>],
     [kind |-> "str", v |-> Star],
     [kind |-> "str", v |-> HostB \o <<" ", ",">> \o Star],
     [kind |-> "list", v |-> <<HostB>>],
     [kind |-> "list", v |-> <<HostA, Star>>]}

\* litestar's MutableScopeHeaders over the scope's header list, a sequence of
\* <<name, value>> pairs with lower-case names; the object works on the
\* scope's own list.  "key in headers":
HeadersContains(headers, key) == \E i \in 1..Len(headers) : headers[i][1] = key

\* headers[key]: the value of the first header of that name.
HeadersGet(headers, key) ==
    headers[CHOOSE i \in 1..Len(headers) :
                headers[i][1] = key /\ \A j \in 1..(i - 1) : headers[j][1] # key][2]

\* _find_indices(key): the positions of the headers of that name, ascending.
FindIndices(headers, key) ==
    SelectSeq([i \in 1..Len(headers) |-> i], LAMBDA i : headers[i][1] = key)

\* "del headers[i]" on a list.
DeleteAt(headers, i) ==
    SubSeq(headers, 1, i - 1) \o SubSeq(headers, i + 1, Len(headers))

RECURSIVE DeleteEach(_, _)
\* "for i in indices: del headers[i]": each deletion acts on the list the
\* earlier ones left, the positions being those found before the first; a
\* position past the end raises IndexError and the list stays as it is then.
DeleteEach(headers, indices) ==
    IF indices = <<>> THEN [error |-> "", headers |-> headers]
    ELSE IF Head(indices) > Len(headers)
    THEN [error |-> "IndexError", headers |-> headers]
    ELSE DeleteEach(DeleteAt(headers, Head(indices)), Tail(indices))

\* headers.update({key: value}), which is headers[key] = value: without a
\* header of that name the header is appended; with some, the positions after
\* the first found are deleted and the first found position takes the header.
HeadersSet(headers, key, value) ==
    LET indices == FindIndices(headers, key)
    IN  IF indices = <<>>
        THEN [error |-> "", headers |-> Append(headers, <<key, value>>)]
        ELSE LET deleted == DeleteEach(headers, Tail(indices))
             IN  IF deleted.error # "" THEN deleted
                 ELSE [error |-> "",
                       headers |-> [deleted.headers EXCEPT
                                       ![Head(indices)] = <<key, value>>]]

\* The outcome of a call of the middleware: the scopes self.app was called
\* with, in order, the exception that left the call ("" for none), and the
\* headers of the caller's scope after it.
MwOutcome(app_calls, error, headers) ==
    [app_calls |-> app_calls, error |-> error, headers |-> headers]

\* XForwardedHostMiddleware.__call__ as written.  MutableScopeHeaders has no
\* attribute raw, so the statement after the update raises AttributeError and
\* the call of the app is not reached.
mw_call(self, scope) ==
    LET client_host_trusted ==
            scope.client.present /\ scope.client.host \in self.trusted_hosts
        rewrite ==
            /\ scope.type \in {"http", "websocket"}
            /\ self.always_trust \/ client_host_trusted
            /\ HeadersContains(scope.headers, "x-forwarded-host")
        updated == HeadersSet(scope.headers, "host",
                              HeadersGet(scope.headers, "x-forwarded-host"))
    IN  IF ~rewrite THEN MwOutcome(<<scope>>, "", scope.headers)
        ELSE IF updated.error # "" THEN MwOutcome(<<>>, updated.error, updated.headers)
        ELSE MwOutcome(<<>>, "AttributeError", updated.headers)

\* A call of the middleware object: the wrapped_call that AbstractMiddleware
\* puts around __call__.
wrapped_call(self, scope) ==
    IF "exclude_pattern" \notin self.attrs
    THEN MwOutcome(<<>>, "AttributeError", scope.headers)
    ELSE IF scope.type \notin self.scopes
    THEN MwOutcome(<<scope>>, "", scope.headers)
    ELSE mw_call(self, scope)

\* The most headers a request of the model carries.
MaxHeaders == 4

HeaderPool ==
    {<<"host", "a.example">>, <<"host", "b.example">>,
     <<"x-forwarded-host", "c.example">>, <<"x-forwarded-host", "d.example">>,
     <<"accept", "x">>}

NoClient == [present |-> FALSE, host |-> <<>>, port |-> 0]

Clients == {NoClient} \cup
           {[present |-> TRUE, host |-> h, port |-> 50000] : h \in {HostA, HostB}}

\* The headers of one name, and the others.
HeadersNamed(headers, key) == SelectSeq(headers, LAMBDA e : e[1] = key)

HeadersNotNamed(headers, key) == SelectSeq(headers, LAMBDA e : e[1] # key)

\* The scopes received: any type, client and headers, repeated headers
\* included.
Scopes ==
    [type : {"http", "websocket", "lifespan"},
     client : Clients,
     headers : SeqsUpTo(HeaderPool, MaxHeaders)]

NoMwCall == [called |-> FALSE,
             scope |-> [type |-> "", client |-> NoClient, headers |-> <<>>],
             app_calls |-> <<>>, error |-> "", headers |-> <<>>]

\* One request passes through the middleware.
CallMiddleware ==
    /\ ~mwCall.called
    /\ \E scope \in Scopes :
           LET outcome == wrapped_call(mw, scope)
           IN  mwCall' = [called |-> TRUE, scope |-> scope,
                          app_calls |-> outcome.app_calls,
                          error |-> outcome.error,
                          headers |-> outcome.headers]
    /\ UNCHANGED <<keyCall, hmacCall, hmacPrev, cmpCall, randCall,
                   context, tasks, loopHolder, mw>>

-----------------------------------------------------------------------------
(* PasswordManager over passlib's CryptContext                             *)

\* An encoded password hash: its scheme, the parameters it was made with, its
\* salt and its checksum.  A scheme is taken as an ideal salted one-way
\* function of the bytes it reads, so the checksum stands for those bytes.
\* params is "current" for a hash made with the parameters the scheme now
\* hashes with and "outdated" for one made with others (fewer rounds, an
\* older variant).  form "none" is Python's None, "unknown" a string no
\* scheme identifies (such as ""), "malformed" a string with a scheme's
\* prefix and an unparsable body.
NoHash ==
    [form |-> "none", scheme |-> "", params |-> "", salt |-> 0, checksum |-> <<>>]

UnknownHash ==
    [form |-> "unknown", scheme |-> "", params |-> "", salt |-> 0, checksum |-> <<>>]

MalformedHash(scheme) ==
    [form |-> "malformed", scheme |-> scheme, params |-> "", salt |-> 0,
     checksum |-> <<>>]

EncodedHash(scheme, params, salt, checksum) ==
    [form |-> "hash", scheme |-> scheme, params |-> params, salt |-> salt,
     checksum |-> checksum]

\* The outcome of a call: a return ("ok") of a flag, a hash or both, or an
\* exception ("raise").
Returns(valid, hash) ==
    [status |-> "ok", error |-> "", valid |-> valid, hash |-> hash]

Raises(error) ==
    [status |-> "raise", error |-> error, valid |-> FALSE, hash |-> NoHash]

NoResult == [status |-> "", error |-> "", valid |-> FALSE, hash |-> NoHash]

\* The context's default scheme: the first of its list.
DefaultScheme(ctx) == ctx.schemes[1]

\* The schemes a context treats as deprecated: with "auto", all but the
\* default.
DeprecatedSchemes(ctx) ==
    IF ctx.deprecated = "auto" THEN Range(ctx.schemes) \ {DefaultScheme(ctx)}
    ELSE {}

\* CryptContext(schemes=..., deprecated=...).
CryptContext(schemes, deprecated) ==
    [schemes |-> schemes, deprecated |-> deprecated]

\* __init__ without deprecated="auto": no scheme of the list is deprecated.
PasswordManager_nothing_deprecated(hash_schemes) ==
    LET schemes == IF ~hash_schemes.given THEN <<"argon2">> ELSE hash_schemes.v
    IN  [context |-> CryptContext(schemes, "")]

\* PasswordManager.__init__: hash_schemes is None (given FALSE) or a list.
PasswordManager(hash_schemes) ==
    LET schemes == IF ~hash_schemes.given THEN <<"argon2">> ELSE hash_schemes.v
    IN  [context |-> CryptContext(schemes, "auto")]

\* passlib turns a text secret into its UTF-8 bytes before hashing it.
to_bytes(secret) == IF secret.kind = "bytes" THEN secret.v ELSE Utf8Encode(secret.v)

\* passlib refuses a secret of more than MAX_PASSWORD_SIZE characters or
\* bytes.
MAX_PASSWORD_SIZE == 4096

\* bcrypt reads the first truncate_size bytes of a secret and no more.
BcryptTruncateSize == 72

\* validate_secret(secret): the error it raises, "" for none.
validate_secret(secret) ==
    IF Len(secret.v) > MAX_PASSWORD_SIZE THEN "PasswordSizeError" ELSE ""

\* The error a scheme raises while it computes the checksum of a secret that
\* passed validate_secret: bcrypt checks the size of the encoded secret and
\* refuses a NUL byte anywhere in it; argon2 takes any bytes.
DigestError(scheme, secret) ==
    LET secret_b == to_bytes(secret)
    IN  IF scheme # "bcrypt" THEN ""
        ELSE IF Len(secret_b) > MAX_PASSWORD_SIZE THEN "PasswordSizeError"
        ELSE IF 0 \in Range(secret_b) THEN "NullPasswordError"
        ELSE ""

\* The bytes a scheme's checksum depends on: all of them for argon2, the
\* first truncate_size for bcrypt, the rest being dropped without a word.
SchemeChecksum(scheme, secret) ==
    IF scheme = "bcrypt" THEN Take(to_bytes(secret), BcryptTruncateSize)
    ELSE to_bytes(secret)

\* CryptContext.hash(secret): a hash under the default scheme, with its
\* current parameters and a fresh salt, here the salt the caller of the model
\* draws.
CryptContextHash(ctx, secret, salt) ==
    LET scheme == DefaultScheme(ctx)
    IN  IF validate_secret(secret) # "" THEN Raises(validate_secret(secret))
        ELSE IF DigestError(scheme, secret) # ""
        THEN Raises(DigestError(scheme, secret))
        ELSE Returns(FALSE, EncodedHash(scheme, "current", salt,
                                        SchemeChecksum(scheme, secret)))

\* handler.needs_update(hash): the hash was made with parameters other than
\* the ones the context hashes with.
NeedsUpdate(ctx, hash) == hash.params = "outdated"

\* CryptContext.verify_and_update(secret, hash): None is no match; the
\* hash's scheme is identified among the context's; the scheme validates the
\* secret, parses the hash and compares the checksums; a matching hash of a
\* deprecated scheme, or one that needs an update, is replaced by a new hash
\* of the secret.
CryptContextVerifyAndUpdate(ctx, secret, hash, salt) ==
    IF hash.form = "none" THEN Returns(FALSE, NoHash)
    ELSE IF hash.form = "unknown" \/ hash.scheme \notin Range(ctx.schemes)
    THEN Raises("UnknownHashError")
    ELSE IF validate_secret(secret) # "" THEN Raises(validate_secret(secret))
    ELSE IF hash.form = "malformed" THEN Raises("ValueError")
    ELSE IF DigestError(hash.scheme, secret) # ""
    THEN Raises(DigestError(hash.scheme, secret))
    ELSE IF hash.checksum # SchemeChecksum(hash.scheme, secret)
    THEN Returns(FALSE, NoHash)
    ELSE IF hash.scheme \in DeprecatedSchemes(ctx) \/ NeedsUpdate(ctx, hash)
    THEN LET new == CryptContextHash(ctx, secret, salt)
         IN  IF new.status = "raise" THEN new ELSE Returns(TRUE, new.hash)
    ELSE Returns(TRUE, NoHash)

\* get_password_hash: what the executor runs, self.context.hash(password).
get_password_hash(self, password, salt) ==
    CryptContextHash(self.context, password, salt)

\* verify_password returning bool(result) of the pair, which is true of
\* every pair.
verify_password_bool_of_pair(self, plain_password, hashed_password, salt) ==
    LET r == CryptContextVerifyAndUpdate(self.context, plain_password,
                                         hashed_password, salt)
    IN  IF r.status = "raise" THEN r ELSE Returns(TRUE, NoHash)

\* verify_password: what the executor runs, and "valid, _ = ...;
\* return bool(valid)" on its result.
verify_password(self, plain_password, hashed_password, salt) ==
    LET r == CryptContextVerifyAndUpdate(self.context, plain_password,
                                         hashed_password, salt)
    IN  IF r.status = "raise" THEN r ELSE Returns(r.valid, NoHash)

\* verify_and_update passing (password_hash or "") to the context.
verify_and_update_or_empty(self, password, password_hash, salt) ==
    CryptContextVerifyAndUpdate(
        self.context, password,
        IF password_hash.form = "none" THEN UnknownHash ELSE password_hash, salt)

\* verify_and_update: the context's answer, as it is.
verify_and_update(self, password, password_hash, salt) ==
    CryptContextVerifyAndUpdate(self.context, password, password_hash, salt)

\* The coroutines of the model, and the threads of the loop's default
\* executor.
Tasks == {"t1", "t2"}

MaxWorkers == 2

NoTask == "none"

\* The hash_schemes arguments tried.
HashSchemesInputs ==
    {[given |-> FALSE, v |-> <<>>],
     [given |-> TRUE, v |-> <<"argon2">>],
     [given |-> TRUE, v |-> <<"argon2", "bcrypt">>],
     [given |-> TRUE, v |-> <<"bcrypt", "argon2">>]}

\* The short passwords: "a" and "b" as text, "a" as bytes.
ShortPasswords == {Str(<<97>>), Str(<<98>>), Bytes(<<97>>)}

\* verify_and_update takes its password as text: the short texts, and "a"
\* followed by a NUL, which argon2 hashes and bcrypt refuses.
TextPasswords == {pw \in ShortPasswords : pw.kind = "str"} \cup {Str(<<97, 0>>)}

\* truncate_size times "a".
LongA == Repeat(97, BcryptTruncateSize)

\* The passwords of every size: the short ones; two texts alike in their
\* first truncate_size characters and different in the next; one with a NUL
\* there and a short one with a NUL; texts of MAX_PASSWORD_SIZE characters
\* and of one more.
Passwords ==
    ShortPasswords
    \cup {Str(LongA \o <<97>>), Str(LongA \o <<98>>), Str(LongA \o <<0>>),
          Str(<<97, 0>>),
          Str(Repeat(97, MAX_PASSWORD_SIZE)),
          Str(Repeat(97, MAX_PASSWORD_SIZE + 1))}

Salts == {1, 2}

\* The stored hashes handed to the verifying calls, besides the ones the
\* manager made: None, unreadable ones, hashes of "a" and of "b" under either
\* scheme, with the current parameters and with outdated ones, and an argon2
\* hash of "a" followed by a NUL.
HashArgs ==
    {NoHash, UnknownHash, MalformedHash("argon2")}
    \cup {EncodedHash(scheme, params, 1, b) :
            scheme \in {"argon2", "bcrypt"}, params \in {"current", "outdated"},
            b \in {<<97>>, <<98>>}}
    \cup {EncodedHash("argon2", "current", 1, <<97, 0>>)}

IdleTask == [op |-> "", password |-> None, hash |-> NoHash, pc |-> "idle",
             work |-> "none", future |-> NoResult, result |-> NoResult]

\* A coroutine can start a call when it is at rest and the loop thread is
\* free to run it.
CanCall(t) == tasks[t].pc \in {"idle", "done"} /\ loopHolder = NoTask

\* The hashes get_password_hash has returned to the coroutines.
ProducedHashes ==
    {tasks[u].result.hash :
        u \in {w \in Tasks : /\ tasks[w].pc = "done"
                             /\ tasks[w].op = "get_password_hash"
                             /\ tasks[w].result.status = "ok"}}

\* loop.run_in_executor(None, fn, ...): the work is queued on the default
\* executor and the coroutine suspends on its future.
Submitted(op, password, hash) ==
    [op |-> op, password |-> password, hash |-> hash, pc |-> "awaiting",
     work |-> "queued", future |-> NoResult, result |-> NoResult]

\* A coroutine calls get_password_hash with a password of the set.
CallGetPasswordHash(t, passwords) ==
    /\ CanCall(t)
    /\ \E password \in passwords :
           tasks' = [tasks EXCEPT ![t] = Submitted("get_password_hash", password, NoHash)]
    /\ UNCHANGED <<keyCall, hmacCall, hmacPrev, cmpCall, randCall,
                   context, loopHolder, mw, mwCall>>

\* A coroutine calls verify_password with a password of the set and a stored
\* hash: one of the set or one the manager has made.
CallVerifyPassword(t, passwords, hashes) ==
    /\ CanCall(t)
    /\ \E plain_password \in passwords,
          hashed_password \in hashes \cup ProducedHashes :
           tasks' = [tasks EXCEPT ![t] =
                        Submitted("verify_password", plain_password, hashed_password)]
    /\ UNCHANGED <<keyCall, hmacCall, hmacPrev, cmpCall, randCall,
                   context, loopHolder, mw, mwCall>>

\* A free thread of the executor takes the queued work.
WorkerStart(t) ==
    /\ tasks[t].work = "queued"
    /\ Cardinality({u \in Tasks : tasks[u].work = "running"}) < MaxWorkers
    /\ tasks' = [tasks EXCEPT ![t].work = "running"]
    /\ UNCHANGED <<keyCall, hmacCall, hmacPrev, cmpCall, randCall,
                   context, loopHolder, mw, mwCall>>

\* The thread ends the work and sets the future.
WorkerFinish(t) ==
    /\ tasks[t].work = "running"
    /\ \E salt \in Salts :
           tasks' = [tasks EXCEPT ![t].work = "finished",
                                  ![t].future =
               IF tasks[t].op = "get_password_hash"
               THEN get_password_hash(context, tasks[t].password, salt)
               ELSE verify_password(context, tasks[t].password, tasks[t].hash, salt)]
    /\ UNCHANGED <<keyCall, hmacCall, hmacPrev, cmpCall, randCall,
                   context, loopHolder, mw, mwCall>>

\* The loop resumes the coroutine with the future's outcome.
Resume(t) ==
    /\ tasks[t].pc = "awaiting"
    /\ tasks[t].work = "finished"
    /\ loopHolder = NoTask
    /\ tasks' = [tasks EXCEPT ![t].pc = "done", ![t].work = "none",
                              ![t].result = tasks[t].future]
    /\ UNCHANGED <<keyCall, hmacCall, hmacPrev, cmpCall, randCall,
                   context, loopHolder, mw, mwCall>>

\* verify_and_update is a plain method: its caller runs the context's
\* verify_and_update on the loop thread, which it holds until the return.
CallVerifyAndUpdate(t) ==
    /\ CanCall(t)
    /\ \E password \in TextPasswords, password_hash \in HashArgs :
           tasks' = [tasks EXCEPT ![t] =
               [op |-> "verify_and_update", password |-> password,
                hash |-> password_hash, pc |-> "in_call", work |-> "none",
                future |-> NoResult, result |-> NoResult]]
    /\ loopHolder' = t
    /\ UNCHANGED <<keyCall, hmacCall, hmacPrev, cmpCall, randCall,
                   context, mw, mwCall>>

ReturnVerifyAndUpdate(t) ==
    /\ tasks[t].pc = "in_call"
    /\ loopHolder = t
    /\ \E salt \in Salts :
           tasks' = [tasks EXCEPT ![t].pc = "done", ![t].result =
               verify_and_update(context, tasks[t].password, tasks[t].hash, salt)]
    /\ loopHolder' = NoTask
    /\ UNCHANGED <<keyCall, hmacCall, hmacPrev, cmpCall, randCall,
                   context, mw, mwCall>>

-----------------------------------------------------------------------------
(* Specifications                                                          *)

\* The middleware object the specifications of the other components hold.
DefaultMiddleware ==
    XForwardedHostMiddleware(
        CHOOSE base \in AbstractMiddlewareClasses : "exclude_pattern" \in base.attrs,
        [kind |-> "str", v |-> HostA])

Init ==
    /\ keyCall = NoKeyCall
    /\ hmacCall = NoHmacCall
    /\ hmacPrev = NoHmacCall
    /\ cmpCall = NoCmpCall
    /\ randCall = NoRandCall
    /\ \E hash_schemes \in HashSchemesInputs : context = PasswordManager(hash_schemes)
    /\ tasks = [t \in Tasks |-> IdleTask]
    /\ loopHolder = NoTask
    /\ \E base \in AbstractMiddlewareClasses, trusted_hosts \in TrustedHostsInputs :
           mw = XForwardedHostMiddleware(base, trusted_hosts)
    /\ mwCall = NoMwCall

\* Each specification starts its own component; the others stay at one value.
InitPassword ==
    /\ Init
    /\ mw = DefaultMiddleware

InitUtil ==
    /\ InitPassword
    /\ context = PasswordManager([given |-> FALSE, v |-> <<>>])

InitMw ==
    /\ Init
    /\ context = PasswordManager([given |-> FALSE, v |-> <<>>])

\* The three operations of a manager, on short passwords and stored hashes of
\* every form.
Next ==
    \E t \in Tasks :
        \/ CallGetPasswordHash(t, ShortPasswords)
        \/ CallVerifyPassword(t, ShortPasswords, HashArgs)
        \/ CallVerifyAndUpdate(t)
        \/ WorkerStart(t)
        \/ WorkerFinish(t)
        \/ Resume(t)
        \/ ReturnVerifyAndUpdate(t)

Spec == InitPassword /\ [][Next]_vars

\* Hashing and verifying passwords of every size: one coroutine hashes
\* passwords, one after the other, while the other verifies passwords against
\* None and against the hashes the first has got.
NextVerify ==
    \/ CallGetPasswordHash("t1", Passwords)
    \/ CallVerifyPassword("t2", Passwords, {NoHash})
    \/ \E t \in Tasks :
           \/ WorkerStart(t)
           \/ WorkerFinish(t)
           \/ Resume(t)

SpecVerify == InitPassword /\ [][NextVerify]_vars

NextKey == CallGetEncryptionKey

SpecKey == InitUtil /\ [][NextKey]_vars

NextHmac == CallSaltedHmac

SpecHmac == InitUtil /\ [][NextHmac]_vars

NextCmp == CallConstantTimeCompare

SpecCmp == InitUtil /\ [][NextCmp]_vars

NextRand ==
    \/ CallGetRandomString
    \/ CallGetRandomStringDefault
    \/ CallGetRandomSecretKey

SpecRand == InitUtil /\ [][NextRand]_vars

NextMw == CallMiddleware

SpecMw == InitMw /\ [][NextMw]_vars

-----------------------------------------------------------------------------
(* Properties                                                              *)

\* C1: for every secret, get_encryption_key returns the URL-safe base64 of
\* exactly KeyLen bytes, the secret padded with spaces to KeyLen and cut to
\* KeyLen.  The code pads a short secret and never cuts a long one, and a
\* character of several bytes makes even a padded secret longer.
C1_KeyIsBase64Of32Bytes ==
    keyCall.called =>
        LET raw == urlsafe_b64decode(keyCall.result)
            secret_b == Utf8Encode(keyCall.secret)
        IN  /\ Len(raw) = KeyLen
            /\ raw = Take(secret_b \o Repeat(ChSpace, KeyLen), KeyLen)

\* C5: salted_hmac raises InvalidAlgorithm, with no key or digest computed,
\* for every name that is no supported hash function, and returns a digest
\* for every name that is one.
C5_InvalidAlgorithmExactlyWhenUnsupported ==
    hmacCall.called =>
        IF hmacCall.algorithm \in SupportedHashNames
        THEN hmacCall.result.status = "ok"
        ELSE hmacCall.result = Raised("InvalidAlgorithm")

\* The hashing of task t's call is under way: queued or running on the
\* executor, or running in the caller.
HashingInProgress(t) ==
    tasks[t].work \in {"queued", "running"} \/ tasks[t].pc = "in_call"

\* C6: while the hashing of a get_password_hash, verify_password or
\* verify_and_update call is under way, it is the executor's work and the
\* loop thread is free for the other coroutines.
C6_HashingLeavesTheLoopFree ==
    \A t \in Tasks :
        HashingInProgress(t) =>
            /\ tasks[t].work \in {"queued", "running"}
            /\ loopHolder = NoTask

\* C7 as claimed: constant_time_compare(x, x) is true and
\* constant_time_compare(x, y) is false whenever x # y.
C7_CompareIsEqualityOfOperands ==
    cmpCall.called => (cmpCall.result <=> cmpCall.val1 = cmpCall.val2)

\* C7 as amended: constant_time_compare(x, x) is true; for two texts or two
\* bytes operands it is false whenever x # y, different lengths included; for
\* a text and a bytes operand it is true exactly when the bytes are the UTF-8
\* encoding of the text.
C7_CompareIsEqualityOfBytes ==
    cmpCall.called =>
        LET x == cmpCall.val1
            y == cmpCall.val2
        IN  /\ x = y => cmpCall.result
            /\ x.kind = y.kind /\ x # y => ~cmpCall.result
            /\ x.kind = "str" /\ y.kind = "bytes" =>
                   (cmpCall.result <=> Utf8Encode(x.v) = y.v)
            /\ x.kind = "bytes" /\ y.kind = "str" =>
                   (cmpCall.result <=> x.v = Utf8Encode(y.v))

\* C7 witness: two operands of one kind and of different lengths, the shorter
\* a prefix of the longer, were compared and found different.
C7_Witness ==
    /\ cmpCall.called
    /\ cmpCall.val1.kind = cmpCall.val2.kind
    /\ Len(cmpCall.val1.v) < Len(cmpCall.val2.v)
    /\ cmpCall.val1.v = Take(cmpCall.val2.v, Len(cmpCall.val1.v))
    /\ Len(cmpCall.val1.v) > 0
    /\ ~cmpCall.result

\* C8: a string that get_random_string or get_random_secret_key returns has
\* exactly the requested length and only characters of the alphabet (for
\* get_random_secret_key, of its fixed alphabet); it returns one for every
\* length from 0 and every alphabet that is not empty.
C8_RandomStringLengthAndAlphabet ==
    randCall.called =>
        LET r == randCall.result
            alphabet == IF randCall.fn = "get_random_secret_key"
                        THEN SecretKeyChars ELSE randCall.allowed_chars
        IN  /\ Len(alphabet) > 0 => r.status = "ok"
            /\ r.status = "ok" =>
                   /\ Len(r.value) = randCall.length
                   /\ \A i \in 1..Len(r.value) : r.value[i] \in Range(alphabet)

\* C8 witness: a call for two or more characters returned a string whose
\* first two characters differ.
C8_Witness ==
    /\ randCall.called
    /\ randCall.length >= 2
    /\ randCall.result.status = "ok"
    /\ Len(randCall.result.value) >= 2
    /\ randCall.result.value[1] # randCall.result.value[2]

\* The bytes of the secret a salted_hmac call uses.
SecretBytesOf(call) ==
    force_bytes(IF call.secret = None THEN SECRET_KEY ELSE call.secret)

\* In one salted_hmac call that returned: the key is a digest, under the
\* call's algorithm, of the salt bytes followed by the secret bytes (and so
\* not of the secret alone), and the digest is the HMAC of the value bytes
\* under that key and the same algorithm.
DerivedKeyAndDigest(call) ==
    /\ call.result.key.hash = call.algorithm
    /\ call.result.key.of = force_bytes(call.key_salt) \o SecretBytesOf(call)
    /\ call.result.key.of # SecretBytesOf(call) \/ force_bytes(call.key_salt) = <<>>
    /\ call.result.digest =
           HmacNew(call.result.key, force_bytes(call.value), call.algorithm)

\* Two calls with the same arguments gave the same outcome.
SameArgumentsSameDigest(a, b) ==
    (/\ a.key_salt = b.key_salt
     /\ a.value = b.value
     /\ a.secret = b.secret
     /\ a.algorithm = b.algorithm) => a.result = b.result

\* C9 as claimed: the key is hash(salt bytes + secret bytes), never the raw
\* secret; under one secret, two distinct key_salt values give distinct hash
\* inputs; the digest is the HMAC of the value under the derived key; equal
\* arguments give equal digests.
C9_DistinctSaltsDistinctKeys ==
    (hmacCall.called /\ hmacCall.result.status = "ok") =>
        /\ DerivedKeyAndDigest(hmacCall)
        /\ (hmacPrev.called /\ hmacPrev.result.status = "ok") =>
               /\ SameArgumentsSameDigest(hmacPrev, hmacCall)
               /\ (/\ SecretBytesOf(hmacPrev) = SecretBytesOf(hmacCall)
                   /\ hmacPrev.key_salt # hmacCall.key_salt) =>
                      hmacPrev.result.key.of # hmacCall.result.key.of

\* C9 as amended: as claimed, with "two key_salt values of distinct bytes"
\* for "two distinct key_salt values": a text salt and the bytes of its UTF-8
\* encoding are one salt.
C9_DistinctSaltBytesDistinctKeys ==
    (hmacCall.called /\ hmacCall.result.status = "ok") =>
        /\ DerivedKeyAndDigest(hmacCall)
        /\ (hmacPrev.called /\ hmacPrev.result.status = "ok") =>
               /\ SameArgumentsSameDigest(hmacPrev, hmacCall)
               /\ (/\ SecretBytesOf(hmacPrev) = SecretBytesOf(hmacCall)
                   /\ force_bytes(hmacPrev.key_salt) # force_bytes(hmacCall.key_salt)) =>
                      /\ hmacPrev.result.key.of # hmacCall.result.key.of
                      /\ hmacPrev.result.key.hash = hmacCall.result.key.hash =>
                             hmacPrev.result.key # hmacCall.result.key

\* C9 witness: two calls under the process secret, one leaving it to the
\* default, with salts of distinct bytes and one algorithm, returned digests
\* under different keys.
C9_Witness ==
    /\ hmacPrev.called /\ hmacCall.called
    /\ hmacPrev.result.status = "ok" /\ hmacCall.result.status = "ok"
    /\ hmacPrev.secret = None /\ hmacCall.secret # None
    /\ SecretBytesOf(hmacPrev) = SecretBytesOf(hmacCall)
    /\ force_bytes(hmacPrev.key_salt) # force_bytes(hmacCall.key_salt)
    /\ hmacPrev.algorithm = hmacCall.algorithm
    /\ hmacPrev.result.key # hmacCall.result.key

\* Task t has returned from a call of op.
Done(t, op) == tasks[t].pc = "done" /\ tasks[t].op = op

\* Task v's verify_password was given the hash task h's get_password_hash
\* returned.
VerifiesHashOf(v, h) ==
    /\ Done(h, "get_password_hash")
    /\ tasks[h].result.status = "ok"
    /\ Done(v, "verify_password")
    /\ tasks[v].hash = tasks[h].result.hash

\* C2 as claimed: verify_password(q, h) on the hash h of get_password_hash(p)
\* returns true exactly when q = p, and false otherwise.
C2_VerifyTrueExactlyForSamePassword ==
    \A h \in Tasks, v \in Tasks :
        VerifiesHashOf(v, h) =>
            /\ tasks[v].result.status = "ok"
            /\ tasks[v].result.valid <=> tasks[v].password = tasks[h].password

\* The bytes of a password: a text counts as its UTF-8 encoding.
PasswordBytes(password) ==
    IF password.kind = "bytes" THEN password.v ELSE Utf8Encode(password.v)

\* The bytes of a password a scheme reads.
BytesRead(scheme, password) ==
    IF scheme = "bcrypt"
    THEN Take(PasswordBytes(password), BcryptTruncateSize)
    ELSE PasswordBytes(password)

\* The scheme refuses the password: it is longer than MAX_PASSWORD_SIZE, or
\* the scheme is bcrypt and the password has a NUL byte.
Refused(scheme, password) ==
    LET password_b == PasswordBytes(password)
    IN  \/ Len(password.v) > MAX_PASSWORD_SIZE
        \/ /\ scheme = "bcrypt"
           /\ Len(password_b) > MAX_PASSWORD_SIZE \/ 0 \in Range(password_b)

\* C2 as amended: verify_password(q, h) raises for a q the scheme of h
\* refuses; for any other q it returns true exactly when q and p are the same
\* bytes as far as the scheme reads them, and false otherwise: for two texts
\* or two bytes passwords under argon2, exactly when q = p.
C2_VerifyTrueExactlyForSameBytesRead ==
    \A h \in Tasks, v \in Tasks :
        VerifiesHashOf(v, h) =>
            LET q == tasks[v].password
                p == tasks[h].password
                scheme == tasks[v].hash.scheme
                r == tasks[v].result
            IN  /\ r.hash = NoHash
                /\ Refused(scheme, q) =>
                       /\ r.status = "raise"
                       /\ r.error \in {"PasswordSizeError", "NullPasswordError"}
                /\ ~Refused(scheme, q) =>
                       /\ r.status = "ok"
                       /\ r.valid <=> BytesRead(scheme, q) = BytesRead(scheme, p)
                       /\ (scheme = "argon2" /\ q.kind = p.kind) =>
                              (r.valid <=> q = p)

\* C2 witness: under bcrypt, a password was hashed and another one of the
\* same kind, different past the bytes bcrypt reads, was verified against
\* that hash and accepted.
C2_Witness ==
    \E h \in Tasks, v \in Tasks :
        /\ VerifiesHashOf(v, h)
        /\ tasks[v].hash.scheme = "bcrypt"
        /\ tasks[v].password.kind = tasks[h].password.kind
        /\ tasks[v].password # tasks[h].password
        /\ tasks[v].result = Returns(TRUE, NoHash)

\* Task t's verify_and_update was given the right password for a well-formed
\* hash of a scheme of the manager's list.
RightPasswordFor(t) ==
    /\ Done(t, "verify_and_update")
    /\ tasks[t].hash.form = "hash"
    /\ tasks[t].hash.scheme \in Range(context.context.schemes)
    /\ tasks[t].hash.checksum = Utf8Encode(tasks[t].password.v)

\* C3 as claimed: in a manager of two or more schemes, verify_and_update with
\* the right password returns (true, new_hash) for a hash of a scheme other
\* than the first, new_hash being a hash under the first scheme that verifies
\* against the password, and (true, null) for a hash of the first scheme.
C3_DeprecatedHashIsRenewed ==
    \A t \in Tasks :
        (RightPasswordFor(t) /\ Len(context.context.schemes) >= 2) =>
            LET r == tasks[t].result
                preferred == context.context.schemes[1]
            IN  /\ r.status = "ok" /\ r.valid
                /\ tasks[t].hash.scheme = preferred => r.hash = NoHash
                /\ tasks[t].hash.scheme # preferred =>
                       /\ r.hash.form = "hash"
                       /\ r.hash.scheme = preferred
                       /\ \A salt \in Salts :
                              verify_and_update(context, tasks[t].password,
                                                r.hash, salt) = Returns(TRUE, NoHash)

\* C3 as amended: it returns (true, null) for a hash of the first scheme made
\* with the scheme's current parameters.  For a hash of another scheme, and
\* for a hash of the first scheme made with outdated parameters, it hashes
\* the password anew: it returns (true, new_hash), new_hash being a hash
\* under the first scheme with its current parameters that verifies against
\* the password and is not renewed again, or, when the first scheme refuses
\* the password, raises that scheme's error.
C3_DeprecatedOrOutdatedHashIsRenewed ==
    \A t \in Tasks :
        (RightPasswordFor(t) /\ Len(context.context.schemes) >= 2) =>
            LET r == tasks[t].result
                preferred == context.context.schemes[1]
                kept == /\ tasks[t].hash.scheme = preferred
                        /\ tasks[t].hash.params = "current"
            IN  /\ kept => r = Returns(TRUE, NoHash)
                /\ (~kept /\ Refused(preferred, tasks[t].password)) =>
                       /\ r.status = "raise"
                       /\ r.error \in {"PasswordSizeError", "NullPasswordError"}
                /\ (~kept /\ ~Refused(preferred, tasks[t].password)) =>
                       /\ r.status = "ok" /\ r.valid
                       /\ r.hash.form = "hash"
                       /\ r.hash.scheme = preferred
                       /\ r.hash.params = "current"
                       /\ \A salt \in Salts :
                              verify_and_update(context, tasks[t].password,
                                                r.hash, salt) = Returns(TRUE, NoHash)

\* C3 witness: verify_and_update returned a new hash for a hash of the
\* second scheme of the list made with current parameters, and another call
\* returned one for a hash of the first scheme made with outdated parameters.
C3_Witness ==
    \E t \in Tasks, u \in Tasks :
        /\ RightPasswordFor(t) /\ RightPasswordFor(u)
        /\ Len(context.context.schemes) >= 2
        /\ tasks[t].hash.scheme = context.context.schemes[2]
        /\ tasks[t].hash.params = "current"
        /\ tasks[t].result.valid
        /\ tasks[t].result.hash.form = "hash"
        /\ tasks[u].hash.scheme = context.context.schemes[1]
        /\ tasks[u].hash.params = "outdated"
        /\ tasks[u].result.valid
        /\ tasks[u].result.hash.form = "hash"

\* C4: verify_and_update(password, null) returns (false, null) and raises
\* nothing; a hash that is there and cannot be read (no scheme of the list
\* identifies it, or its body does not parse) raises an error to the caller.
C4_OnlyNullHashIsNoMatch ==
    \A t \in Tasks :
        Done(t, "verify_and_update") =>
            /\ tasks[t].hash.form = "none" =>
                   tasks[t].result = Returns(FALSE, NoHash)
            /\ (\/ tasks[t].hash.form \in {"unknown", "malformed"}
                \/ /\ tasks[t].hash.form = "hash"
                   /\ tasks[t].hash.scheme \notin Range(context.context.schemes)) =>
                   /\ tasks[t].result.status = "raise"
                   /\ tasks[t].result.error \in {"UnknownHashError", "ValueError"}

\* C4 witness: verify_and_update returned (false, null) for a null hash.
C4_Witness ==
    \E t \in Tasks :
        /\ Done(t, "verify_and_update")
        /\ tasks[t].hash.form = "none"
        /\ tasks[t].result = Returns(FALSE, NoHash)

\* The request is one the middleware is to rewrite: an http or websocket
\* scope with an X-Forwarded-Host header, from a trusted client or under "*".
ToRewrite(scope) ==
    /\ scope.type \in {"http", "websocket"}
    /\ \E i \in 1..Len(scope.headers) : scope.headers[i][1] = "x-forwarded-host"
    /\ \/ Star \in mw.trusted_hosts
       \/ scope.client.present /\ scope.client.host \in mw.trusted_hosts

\* C10: the app is called exactly once, with the request's scope; its headers
\* are the request's, but for a request to rewrite, whose Host header becomes
\* the one Host header of the (first) X-Forwarded-Host value, the other
\* headers staying as they are.  The code does not reach the app with a
\* request to rewrite: the call ends in AttributeError after the update of
\* the headers.
C10_HostRewrittenOnlyWhenTrusted ==
    mwCall.called =>
        /\ mwCall.error = ""
        /\ Len(mwCall.app_calls) = 1
        /\ LET req == mwCall.scope
               out == [mwCall.app_calls[1] EXCEPT !.headers = mwCall.headers]
               first == CHOOSE i \in 1..Len(req.headers) :
                            /\ req.headers[i][1] = "x-forwarded-host"
                            /\ \A j \in 1..(i - 1) : req.headers[j][1] # "x-forwarded-host"
           IN  /\ out.type = req.type
               /\ out.client = req.client
               /\ ~ToRewrite(req) => out.headers = req.headers
               /\ ToRewrite(req) =>
                      /\ HeadersNamed(out.headers, "host") = <<<<"host", req.headers[first][2]>>>>
                      /\ HeadersNotNamed(out.headers, "host") =
                             HeadersNotNamed(req.headers, "host")

=============================================================================
